---- MODULE Spec2Model ----
(***************************************************************************)
(* A model of tools/ingest.py: the ingest pipeline that discovers unseen   *)
(* source images, converts them, collects metadata, resolves a slug,       *)
(* writes the image and the work document, records the work, archives the  *)
(* source, regenerates the README index and persists state.json and        *)
(* manifest.json.                                                          *)
(*                                                                         *)
(* Text is modelled as a sequence of characters, each character a string   *)
(* of its own (<<"F", "o", "o">>).  A marker of the README and a few fixed *)
(* fragments are single tokens of such a sequence.  A file's bytes are an   *)
(* element of Contents; a directory is a function from the names in it to   *)
(* their bytes.                                                            *)
(***************************************************************************)
EXTENDS Integers, Sequences, FiniteSets, TLC

\* ------------------------------------------------------------- bounds
\* How many times main() is started.
MaxRuns == 2
\* How many times a file is put into the source directory between runs.
MaxAdds == 2
\* How many times a run is cut short by a kill or by a failing write.
MaxFaults == 1
\* How many lines are typed at a multi-line prompt before the sentinel.
MaxLines == 2

\* ---------------------------------------------------- program constants
\* default_title = base_default_title[:60]
TitleLimit == 60
\* default_year = date.today().year (the year of the run; any fixed year)
CurrentYear == 2026

\* The byte contents a source file may have: two files hold the same bytes or
\* they do not.
Contents == {1, 2}

\* ------------------------------------------------------------ characters
\* The characters the model's texts are made of.
LowerLetters == {"a", "b", "d", "e", "f", "i", "l", "n", "o", "t", "u"}
DigitChars == {"0", "1", "2", "3", "4", "5", "6", "7", "8", "9"}
DigitSeq == <<"0", "1", "2", "3", "4", "5", "6", "7", "8", "9">>
LetterSeq == <<"a", "b", "c", "d", "e", "f", "g", "h", "i", "j", "k", "l", "m",
               "n", "o", "p", "q", "r", "s", "t", "u", "v", "w", "x", "y", "z">>
Chars == LowerLetters \cup DigitChars \cup
         {"\n", " ", "-", ".", "_", "A", "F", "Uuml", "uuml",
          "<!-- INDEX:BEGIN -->", "<!-- INDEX:END -->"}

\* ord(c): the code point of a character; a marker token is ordered by its first
\* character, "<".
CharCode(c) ==
    CASE c = "\n" -> 10
      [] c = " " -> 32
      [] c = "-" -> 45
      [] c = "." -> 46
      [] c \in DigitChars -> 47 + (CHOOSE d \in 1..10 : DigitSeq[d] = c)
      [] c \in {"<!-- INDEX:BEGIN -->", "<!-- INDEX:END -->"} -> 60
      [] c = "A" -> 65
      [] c = "F" -> 70
      [] c = "_" -> 95
      [] c \in LowerLetters -> 96 + (CHOOSE d \in 1..26 : LetterSeq[d] = c)
      [] c = "Uuml" -> 220
      [] c = "uuml" -> 252

\* str.lower() on one character ("Uuml" is U+00DC, "uuml" is U+00FC).
LowerChar(c) ==
    CASE c = "A" -> "a"
      [] c = "F" -> "f"
      [] c = "Uuml" -> "uuml"
      [] OTHER -> c

IsSpace(c) == c \in {" ", "\n"}

\* [a-z0-9]
IsSlugChar(c) == c \in LowerLetters \cup DigitChars

RECURSIVE MapLower(_)
\* str.lower()
MapLower(s) == IF s = <<>> THEN <<>> ELSE <<LowerChar(Head(s))>> \o MapLower(Tail(s))

RECURSIVE LStrip(_)
\* str.lstrip()
LStrip(s) == IF s # <<>> /\ IsSpace(Head(s)) THEN LStrip(Tail(s)) ELSE s

RECURSIVE RStrip(_)
\* str.rstrip()
RStrip(s) == IF s # <<>> /\ IsSpace(s[Len(s)]) THEN RStrip(SubSeq(s, 1, Len(s) - 1)) ELSE s

\* str.strip()
Strip(s) == LStrip(RStrip(s))

RECURSIVE StripChar(_, _)
\* str.strip(ch) for a single character ch
StripChar(s, ch) ==
    IF s # <<>> /\ Head(s) = ch THEN StripChar(Tail(s), ch)
    ELSE IF s # <<>> /\ s[Len(s)] = ch THEN StripChar(SubSeq(s, 1, Len(s) - 1), ch)
    ELSE s

RECURSIVE ReplaceChar(_, _, _)
\* str.replace(old, new) for a single character old and a text new
ReplaceChar(s, old, new) ==
    IF s = <<>> THEN <<>>
    ELSE (IF Head(s) = old THEN new ELSE <<Head(s)>>) \o ReplaceChar(Tail(s), old, new)

RECURSIVE Digits(_)
\* str(n) for n >= 0
Digits(n) ==
    LET d == <<DigitSeq[(n % 10) + 1]>>
    IN  IF n < 10 THEN d ELSE Digits(n \div 10) \o d

RECURSIVE SubNonSlug(_)
\* re.sub(r"[^a-z0-9]+", "-", s)
SubNonSlug(s) ==
    IF s = <<>> THEN <<>>
    ELSE IF IsSlugChar(Head(s)) THEN <<Head(s)>> \o SubNonSlug(Tail(s))
    ELSE IF Len(s) > 1 /\ ~IsSlugChar(s[2]) THEN SubNonSlug(Tail(s))
    ELSE <<"-">> \o SubNonSlug(Tail(s))

RECURSIVE CollapseHyphens(_)
\* re.sub(r"-{2,}", "-", s)
CollapseHyphens(s) ==
    IF s = <<>> THEN <<>>
    ELSE IF Head(s) = "-" /\ Len(s) > 1 /\ s[2] = "-" THEN CollapseHyphens(Tail(s))
    ELSE <<Head(s)>> \o CollapseHyphens(Tail(s))

slugify(s) ==
    LET s1 == MapLower(Strip(s))
        s2 == ReplaceChar(s1, "uuml", <<"u", "e">>)
        s3 == SubNonSlug(s2)
        s4 == StripChar(CollapseHyphens(s3), "-")
    IN  IF s4 = <<>> THEN <<"u", "n", "t", "i", "t", "l", "e", "d">> ELSE s4

RECURSIVE ParseInt(_)
\* int(s) for a text of digits
ParseInt(s) ==
    IF s = <<>> THEN 0
    ELSE 10 * ParseInt(SubSeq(s, 1, Len(s) - 1)) + (CharCode(s[Len(s)]) - CharCode("0"))

\* s[:n]
Take(s, n) == SubSeq(s, 1, IF Len(s) < n THEN Len(s) ELSE n)

\* ------------------------------------------------------------ file names
SUPPORTED_EXTS == {".png", ".jpg", ".jpeg", ".webp", ".tif", ".tiff", ".bmp"}

\* Every name a file of the source directory may have, in the order sorted()
\* puts their paths: "a-b.JPG" < "a_b.png" < "n.txt".  The last is a file of
\* notes that lies in the directory from the start.
SourceNames == <<[stem |-> <<"a", "-", "b">>, suffix |-> ".JPG"],
                 [stem |-> <<"a", "_", "b">>, suffix |-> ".png"],
                 [stem |-> <<"n">>, suffix |-> ".txt"]>>

Names == {SourceNames[k] : k \in DOMAIN SourceNames}
Notes == SourceNames[3]

\* p.suffix.lower()
LowerSuffix(x) == IF x = ".JPG" THEN ".jpg" ELSE x

\* What the operator may type at the title prompt and at the year prompt:
\* nothing at either (the defaults: "a b" for both source images, and the
\* current year), or a title and a year whose slug is the "-2" of the defaults'.
PromptInputs == {<<<<>>, <<>>>>,
                 <<<<"A", " ", "b", " ", "2", "0", "2", "6", " ">>, <<"2">>>>}

\* The configurations main() is run with: dry_run, output_format, run_ocr.
\* (run_ocr is not read in a dry run.)
Configs == {[dry_run |-> FALSE, output_format |-> "webp", run_ocr |-> TRUE],
            [dry_run |-> FALSE, output_format |-> "webp", run_ocr |-> FALSE],
            [dry_run |-> FALSE, output_format |-> "gif", run_ocr |-> TRUE],
            [dry_run |-> TRUE, output_format |-> "webp", run_ocr |-> TRUE],
            [dry_run |-> TRUE, output_format |-> "gif", run_ocr |-> TRUE]}

\* What tesseract may recognize in an image.
OcrTexts == {<<>>, <<"o">>}

\* A directory with no file in it, a file that does not exist, and a file
\* holding a text.
NoFiles == <<>>
Absent == [exists |-> FALSE]
TextFile(txt) == [exists |-> TRUE, text |-> txt]

\* dir with the file name holding bytes c (created or overwritten)
PutFile(dir, name, c) == [x \in DOMAIN dir \cup {name} |-> IF x = name THEN c ELSE dir[x]]

\* dir without the file name
DelFile(dir, name) == [x \in DOMAIN dir \ {name} |-> dir[x]]

\* hashlib.sha256 of bytes: a digest per content, no two alike.
Sha256(c) == (7 * c + 3) % 11

\* file_sha256(p) for the file name of the directory dir
file_sha256(dir, name) == Sha256(dir[name])

\* sorted(xs) for a set of integers
RECURSIVE SortedSeq(_)
SortedSeq(S) ==
    IF S = {} THEN <<>>
    ELSE LET m == CHOOSE x \in S : \A y \in S : x <= y
         IN  <<m>> \o SortedSeq(S \ {m})

\* set(xs) for a sequence
SetOf(xs) == {xs[k] : k \in DOMAIN xs}

\* find_new_images without the test against the seen hashes.
find_new_images_unfiltered(source_dir, seen) ==
    SelectSeq(SourceNames,
              LAMBDA p : /\ p \in DOMAIN source_dir
                         /\ LowerSuffix(p.suffix) \in SUPPORTED_EXTS)

\* sorted(source_dir.iterdir()), kept when a file with a supported suffix whose
\* hash is not in seen
find_new_images(source_dir, seen) ==
    SelectSeq(SourceNames,
              LAMBDA p : /\ p \in DOMAIN source_dir
                         /\ LowerSuffix(p.suffix) \in SUPPORTED_EXTS
                         /\ file_sha256(source_dir, p) \notin seen)

\* ------------------------------------------------------------ repository paths
ImagePath(slug, fmt) == [dir |-> "images", stem |-> slug, ext |-> fmt]
DocPath(slug) == [dir |-> "works", stem |-> slug, ext |-> "md"]
TmpPath(stem, fmt) == [dir |-> ".ingest", stem |-> <<"_", "t", "m", "p", "_">> \o stem, ext |-> fmt]

\* f"{slug}-{n}"
Suffixed(slug, n) == slug \o <<"-">> \o Digits(n)

\* ------------------------------------------------------------ metadata
RECURSIVE JoinLines(_)
\* "\n".join(lines)
JoinLines(lines) ==
    IF lines = <<>> THEN <<>>
    ELSE IF Len(lines) = 1 THEN lines[1]
    ELSE lines[1] \o <<"\n">> \o JoinLines(Tail(lines))

\* prompt_multiline: typed is the lines entered before the line holding "."
prompt_multiline(typed) == Strip(JoinLines([k \in DOMAIN typed |-> RStrip(typed[k])]))

\* The default title main() derives from the source file's stem.
DefaultTitle(stem) ==
    LET base == Strip(ReplaceChar(ReplaceChar(stem, "_", <<" ">>), "-", <<" ">>))
    IN  IF base # <<>> THEN Take(base, TitleLimit)
        ELSE <<"U", "n", "t", "i", "t", "l", "e", "d">>

\* prompt_meta without the fallback to the recognizer's text.
prompt_meta_no_fallback(default_title, default_year, ocr_text, source_filename, title_in, year_in, transcription_in, description_in) ==
    LET title == IF Strip(title_in) # <<>> THEN Strip(title_in) ELSE default_title
        year_raw == Strip(year_in)
        year == IF year_raw # <<>> THEN ParseInt(year_raw) ELSE default_year
    IN  [title |-> title, year |-> year, description |-> prompt_multiline(description_in),
         transcription |-> prompt_multiline(transcription_in),
         source_filename |-> source_filename]

\* prompt_meta: title_in, year_in are the lines typed at the first two prompts,
\* transcription_in and description_in the lines typed at the multi-line prompts.
prompt_meta(default_title, default_year, ocr_text, source_filename, title_in, year_in, transcription_in, description_in) ==
    LET title == IF Strip(title_in) # <<>> THEN Strip(title_in) ELSE default_title
        year_raw == Strip(year_in)
        year == IF year_raw # <<>> THEN ParseInt(year_raw) ELSE default_year
        entered == prompt_multiline(transcription_in)
        transcription == IF entered = <<>> THEN ocr_text ELSE entered
        description == prompt_multiline(description_in)
    IN  [title |-> title, year |-> year, description |-> description,
         transcription |-> transcription, source_filename |-> source_filename]

\* ------------------------------------------------------------ recognizer
\* What the external tool may do when run_tesseract_ocr invokes it: each of the
\* two invocations succeeds ("ok"), exits nonzero, finds no executable
\* (FileNotFoundError), or raises another exception (PermissionError, a
\* decoding error, another OSError); what it writes to stdout; the .txt file
\* the second invocation leaves, if any.
Invocations == {"ok", "nonzero", "absent", "error"}
OcrOutputs == {<<>>, <<"o">>, <<" ", "o", "\n">>}
OcrOutcomes ==
    [first : Invocations, stdout : OcrOutputs, second : Invocations,
     txt_file : {Absent} \cup {TextFile(t) : t \in OcrOutputs}]
NoOutcome == [first |-> "none"]

\* run_tesseract_ocr returns a text, or an exception leaves it.
Returned(txt) == [raised |-> FALSE, text |-> txt]
Raised == [raised |-> TRUE]

\* run_tesseract_ocr: the first try catches FileNotFoundError only; the
\* fallback reads <stem>_ocr_tmp.txt and catches every Exception.
run_tesseract_ocr(o) ==
    IF o.first = "absent" THEN Returned(<<>>)
    ELSE IF o.first = "error" THEN Raised
    ELSE IF o.first = "ok" THEN Returned(Strip(o.stdout))
    ELSE IF o.second \in {"absent", "error"} THEN Returned(<<>>)
    ELSE IF o.txt_file.exists THEN Returned(Strip(o.txt_file.text))
    ELSE Returned(<<>>)

\* What run_tesseract_ocr may come to.
OcrResults == {run_tesseract_ocr(o) : o \in OcrOutcomes}

\* ------------------------------------------------------------ slug resolution
\* The collision test with "and" in place of "or".
TakenBoth(slug, fmt, imgs, dcs) ==
    ImagePath(slug, fmt) \in DOMAIN imgs /\ DocPath(slug) \in DOMAIN dcs

\* img_dst.exists() or md_dst.exists() for the candidate slug
Taken(slug, fmt, imgs, dcs) ==
    ImagePath(slug, fmt) \in DOMAIN imgs \/ DocPath(slug) \in DOMAIN dcs

RECURSIVE NextFree(_, _, _, _, _)
\* The while loop of main(): the first slug-n, n counting up, whose paths are free.
NextFree(slug, n, fmt, imgs, dcs) ==
    IF Taken(Suffixed(slug, n), fmt, imgs, dcs)
    THEN NextFree(slug, n + 1, fmt, imgs, dcs)
    ELSE Suffixed(slug, n)

\* The slug main() settles on for the image and the document.
ResolveSlug(slug, fmt, imgs, dcs) ==
    IF Taken(slug, fmt, imgs, dcs) THEN NextFree(slug, 2, fmt, imgs, dcs) ELSE slug

\* ------------------------------------------------------------ README index
marker_a == "<!-- INDEX:BEGIN -->"
marker_b == "<!-- INDEX:END -->"

ReadmeHeader == <<"# Infologische Bildtafeln", "\n", "\n",
                  "Offenes Roharchiv (Bild + Transkription + Kontext) für maschinenlesbare Auffindbarkeit.",
                  "\n", "\n">>

\* The text of a repository-relative path.
PathText(p) == <<p.dir, "/">> \o p.stem \o <<".", p.ext>>

RECURSIVE TextLess(_, _)
\* s < t for two texts, as Python orders strings
TextLess(s, t) ==
    IF t = <<>> THEN FALSE
    ELSE IF s = <<>> THEN TRUE
    ELSE IF CharCode(Head(s)) # CharCode(Head(t)) THEN CharCode(Head(s)) < CharCode(Head(t))
    ELSE TextLess(Tail(s), Tail(t))

RECURSIVE InsertByTitle(_, _)
\* w put into the sorted list ws behind every entry whose key is not greater
InsertByTitle(ws, w) ==
    IF ws = <<>> THEN <<w>>
    ELSE IF TextLess(MapLower(w[1]), MapLower(ws[1][1])) THEN <<w>> \o ws
    ELSE <<ws[1]>> \o InsertByTitle(Tail(ws), w)

RECURSIVE SortedByTitle(_)
\* sorted(works, key=lambda x: x[0].lower()): a stable sort
SortedByTitle(ws) ==
    IF ws = <<>> THEN <<>>
    ELSE InsertByTitle(SortedByTitle(SubSeq(ws, 1, Len(ws) - 1)), ws[Len(ws)])

\* f"- [{title}]({md})"
IndexEntry(w) == <<"- [">> \o w[1] \o <<"](">> \o w[2] \o <<")">>

\* "\n".join(index_lines)
IndexText(works) ==
    LET sorted == SortedByTitle(works)
    IN  JoinLines(<<<<marker_a>>, <<>>, <<"## Werke">>, <<>>>>
                  \o [k \in DOMAIN sorted |-> IndexEntry(sorted[k])]
                  \o <<<<>>, <<marker_b>>, <<>>>>)

\* marker in txt
Contains(txt, marker) == \E k \in DOMAIN txt : txt[k] = marker

\* The places of marker in txt, and the k-th of them (Len(txt) + 1 past the last).
Places(txt, marker) == {k \in DOMAIN txt : txt[k] = marker}
Place(txt, marker, k) ==
    IF Cardinality(Places(txt, marker)) < k THEN Len(txt) + 1
    ELSE CHOOSE q \in Places(txt, marker) :
            Cardinality({r \in Places(txt, marker) : r < q}) = k - 1

\* txt.split(marker)[0]
SplitFirst(txt, marker) == SubSeq(txt, 1, Place(txt, marker, 1) - 1)

\* txt.split(marker)[1]
SplitSecond(txt, marker) ==
    SubSeq(txt, Place(txt, marker, 1) + 1, Place(txt, marker, 2) - 1)

\* update_readme: old is the README file, works the list of (title, md) pairs.
\* The result is the text written.
update_readme(old, works) ==
    LET fresh == ReadmeHeader \o IndexText(works)
        txt == IF old.exists THEN old.text ELSE fresh
    IN  IF Contains(txt, marker_a) /\ Contains(txt, marker_b)
        THEN (RStrip(SplitFirst(txt, marker_a)) \o <<"\n">>)
             \o IndexText(works) \o LStrip(SplitSecond(txt, marker_b))
        ELSE fresh

\* ------------------------------------------------------------ state
VARIABLES
    \* On disk: the source directory and its _ingested subfolder (name -> bytes),
    \* the repository's images/ and works/ (path -> what was written), the
    \* temporary assets of .ingest/, whether ensure_dirs has made the directories,
    \* state.json, manifest.json, README.md, sitemap.xml, the number of commits.
    source_dir, archive_dir, images, work_docs, tmp_files, dirs_made,
    state_json, manifest_json, readme, sitemap, commits,
    \* In the memory of a running main(): its position, its configuration, and
    \* its locals.
    pc, dry_run, output_format, run_ocr, new_imgs, idx,
    seen_hashes, works_state, manifest, h, ocr_text, meta,
    \* How the last main() ended; how often main() ran, files were added, and
    \* a run was cut short.
    exit, runs, adds, faults,
    \* History: no file was added since a run that was not a dry run completed;
    \* whether that held when the last run started; the digests ingested
    \* by completed runs that were not dry runs; whether a run that was not a
    \* dry run was ever killed;
    \* the disk as the running main() found it.
    clean, from_clean, ingested, interrupted, at_start,
    \* For a function called on its own: whether it was called; for
    \* update_readme the README it found and the list of (title, md) pairs it
    \* was given; for prompt_meta the lines typed at the two multi-line prompts;
    \* for run_tesseract_ocr what the external tool did.
    readme_was, index_works, called, typed_transcription, typed_description,
    ocr_outcome

diskVars == <<source_dir, archive_dir, images, work_docs, tmp_files, dirs_made,
              state_json, manifest_json, readme, sitemap, commits>>
cfgVars == <<dry_run, output_format, run_ocr>>
itemVars == <<h, ocr_text, meta>>
memVars == <<pc, dry_run, output_format, run_ocr, new_imgs, idx,
             seen_hashes, works_state, manifest, h, ocr_text, meta>>
histVars == <<clean, from_clean, ingested, interrupted, at_start>>
callVars == <<readme_was, index_works, called, typed_transcription, typed_description,
              ocr_outcome>>
vars == <<diskVars, memVars, exit, runs, adds, faults, histVars, callVars>>

NoMeta == [title |-> <<>>]
NoSnapshot == [taken |-> FALSE]

\* The part of the disk a run is said to leave alone when it fails.
Durable == [taken |-> TRUE, source_dir |-> source_dir, archive_dir |-> archive_dir,
            images |-> images, work_docs |-> work_docs,
            state_json |-> state_json, manifest_json |-> manifest_json]

\* The persisted state ignored: every run starts from the default.
LoadStateFresh == [seen_hashes |-> <<>>, works |-> <<>>]

\* load_json(state_path, default={"seen_hashes": [], "works": []})
LoadState ==
    IF state_json = Absent THEN [seen_hashes |-> <<>>, works |-> <<>>]
    ELSE [seen_hashes |-> state_json.seen_hashes, works |-> state_json.works]

\* load_json(manifest_path, default={"works": []})
LoadManifest == IF manifest_json = Absent THEN <<>> ELSE manifest_json.works

Init ==
    /\ source_dir = PutFile(NoFiles, Notes, 1) /\ archive_dir = NoFiles
    /\ images = NoFiles /\ work_docs = NoFiles /\ tmp_files = NoFiles
    /\ dirs_made = FALSE
    /\ state_json = Absent /\ manifest_json = Absent
    /\ readme = Absent /\ sitemap = Absent /\ commits = 0
    /\ pc = "idle" /\ dry_run = FALSE /\ output_format = "webp" /\ run_ocr = FALSE
    /\ new_imgs = <<>> /\ idx = 0
    /\ seen_hashes = {} /\ works_state = <<>> /\ manifest = <<>>
    /\ h = 0 /\ ocr_text = <<>> /\ meta = NoMeta
    /\ exit = "none" /\ runs = 0 /\ adds = 0 /\ faults = 0
    /\ clean = FALSE /\ from_clean = FALSE /\ ingested = {} /\ interrupted = FALSE
    /\ at_start = NoSnapshot
    /\ readme_was = Absent /\ index_works = <<>> /\ called = FALSE
    /\ typed_transcription = <<>> /\ typed_description = <<>>
    /\ ocr_outcome = NoOutcome

\* The process is gone: what main() held in memory is forgotten.
Forget ==
    /\ pc' = "idle" /\ dry_run' = FALSE /\ output_format' = "webp" /\ run_ocr' = FALSE
    /\ new_imgs' = <<>> /\ idx' = 0
    /\ seen_hashes' = {} /\ works_state' = <<>> /\ manifest' = <<>>
    /\ h' = 0 /\ ocr_text' = <<>> /\ meta' = NoMeta
    /\ at_start' = NoSnapshot

\* ------------------------------------------------------------ the operator
\* A file appears in the source directory between two runs: a new scan, or a
\* copy of an archived file, under a name not in use there.
AddFile ==
    /\ pc = "idle" /\ adds < MaxAdds
    /\ \E name \in Names \ DOMAIN source_dir, c \in Contents :
          source_dir' = PutFile(source_dir, name, c)
    /\ adds' = adds + 1
    /\ clean' = FALSE
    /\ UNCHANGED <<archive_dir, images, work_docs, tmp_files, dirs_made, state_json,
                   manifest_json, readme, sitemap, commits, memVars, exit, runs, faults,
                   from_clean, ingested, interrupted, at_start>>
    /\ UNCHANGED callVars

\* ------------------------------------------------------------ main()
\* The configuration checks placed after ensure_dirs.
ConfigErrorAfterEnsureDirs ==
    /\ pc = "idle" /\ runs < MaxRuns
    /\ \E why \in {"argv", "source_dir", "git"} : exit' = "2"
    /\ runs' = runs + 1
    /\ from_clean' = clean
    /\ dirs_made' = TRUE
    /\ UNCHANGED <<source_dir, archive_dir, images, work_docs, tmp_files, state_json,
                   manifest_json, readme, sitemap, commits,
                   memVars, adds, faults, clean, ingested, interrupted, at_start>>
    /\ UNCHANGED callVars

\* main() returns 2: no argument, no source directory, or no .git in repo_dir.
ConfigError ==
    /\ pc = "idle" /\ runs < MaxRuns
    /\ \E why \in {"argv", "source_dir", "git"} : exit' = "2"
    /\ runs' = runs + 1
    /\ from_clean' = clean
    /\ UNCHANGED <<diskVars, memVars, adds, faults, clean, ingested, interrupted, at_start>>
    /\ UNCHANGED callVars

\* main() up to the end of discovery: ensure_dirs, the state is loaded, the
\* source directory is scanned; with nothing new it returns 0, else it reads the
\* rest of the configuration and the manifest and enters the loop.
StartRun ==
    /\ pc = "idle" /\ runs < MaxRuns
    /\ runs' = runs + 1
    /\ from_clean' = clean
    /\ dirs_made' = TRUE
    /\ \E cfg \in Configs :
        LET found == find_new_images(source_dir, SetOf(LoadState.seen_hashes))
        IN  IF found = <<>>
            THEN /\ exit' = "0"
                 /\ clean' = (clean \/ ~cfg.dry_run)
                 /\ UNCHANGED <<memVars, at_start>>
            ELSE /\ exit' = "none"
                 /\ pc' = "convert"
                 /\ dry_run' = cfg.dry_run /\ output_format' = cfg.output_format
                 /\ run_ocr' = cfg.run_ocr
                 /\ new_imgs' = found /\ idx' = 1
                 /\ seen_hashes' = SetOf(LoadState.seen_hashes)
                 /\ works_state' = LoadState.works
                 /\ manifest' = LoadManifest
                 /\ at_start' = Durable
                 /\ UNCHANGED <<itemVars, clean>>
    /\ UNCHANGED <<source_dir, archive_dir, images, work_docs, tmp_files, state_json,
                   manifest_json, readme, sitemap, commits, adds, faults, ingested,
                   interrupted>>
    /\ UNCHANGED callVars

\* The source file of the current iteration and its temporary asset.
src == new_imgs[idx]
tmp_out == TmpPath(src.stem, output_format)

\* An exception leaves main(): the process ends with a traceback.
Raise ==
    /\ Forget
    /\ exit' = "1"

\* Whether a write succeeds: it may fail while the model has a fault to spend.
Outcomes == IF faults < MaxFaults THEN BOOLEAN ELSE {TRUE}

\* web_convert's format dispatch: whether fmt is one it can write.
CanConvert(fmt) == fmt \in {"webp", "jpg", "jpeg", "png"}

\* The head of an iteration: the hash, the stale temporary asset is removed, and
\* unless dry_run the source is converted into the temporary asset.  web_convert
\* raises for a format it does not know, and may fail on the image or the disk.
Convert ==
    /\ pc = "convert"
    /\ \E io_ok \in Outcomes :
        IF dry_run
        THEN /\ io_ok
             /\ tmp_files' = DelFile(tmp_files, tmp_out)
             /\ h' = file_sha256(source_dir, src)
             /\ pc' = "ocr"
             /\ UNCHANGED <<dry_run, output_format, run_ocr, new_imgs, idx, seen_hashes,
                            works_state, manifest, ocr_text, meta, exit, faults, at_start>>
        ELSE IF ~CanConvert(output_format)
        THEN /\ io_ok
             /\ tmp_files' = DelFile(tmp_files, tmp_out)
             /\ UNCHANGED faults
             /\ Raise
        ELSE IF io_ok
        THEN /\ tmp_files' = PutFile(tmp_files, tmp_out, source_dir[src])
             /\ h' = file_sha256(source_dir, src)
             /\ pc' = "ocr"
             /\ UNCHANGED <<dry_run, output_format, run_ocr, new_imgs, idx, seen_hashes,
                            works_state, manifest, ocr_text, meta, exit, faults, at_start>>
        ELSE /\ tmp_files' = DelFile(tmp_files, tmp_out)
             /\ faults' = faults + 1
             /\ Raise
    /\ UNCHANGED <<source_dir, archive_dir, images, work_docs, dirs_made, state_json,
                   manifest_json, readme, sitemap, commits, runs, adds,
                   clean, from_clean, ingested, interrupted>>
    /\ UNCHANGED callVars

\* The recognition step with the recognizer called in a dry run too.
RecognizeInDryRun ==
    /\ pc = "ocr"
    /\ \E r \in IF run_ocr THEN OcrResults ELSE {Returned(<<>>)} :
          IF r.raised
          THEN /\ faults < MaxFaults
               /\ faults' = faults + 1
               /\ Raise
          ELSE /\ ocr_text' = r.text
               /\ pc' = "prompt"
               /\ UNCHANGED <<dry_run, output_format, run_ocr, new_imgs, idx, seen_hashes,
                              works_state, manifest, h, meta, exit, faults, at_start>>
    /\ UNCHANGED <<diskVars, runs, adds, clean, from_clean, ingested, interrupted>>
    /\ UNCHANGED callVars

\* run_tesseract_ocr on the temporary asset, when configured and not dry_run;
\* an exception that leaves it leaves main().
Recognize ==
    /\ pc = "ocr"
    /\ \E r \in IF run_ocr /\ ~dry_run THEN OcrResults ELSE {Returned(<<>>)} :
          IF r.raised
          THEN /\ faults < MaxFaults
               /\ faults' = faults + 1
               /\ Raise
          ELSE /\ ocr_text' = r.text
               /\ pc' = "prompt"
               /\ UNCHANGED <<dry_run, output_format, run_ocr, new_imgs, idx, seen_hashes,
                              works_state, manifest, h, meta, exit, faults, at_start>>
    /\ UNCHANGED <<diskVars, runs, adds, clean, from_clean, ingested, interrupted>>
    /\ UNCHANGED callVars

\* What of a WorkMeta decides paths and records (its two free texts, the
\* transcription and the description, are left out).
Identity(m) == [title |-> m.title, year |-> m.year, source_filename |-> m.source_filename]

\* prompt_meta: the operator types a title and a year, and ends both multi-line
\* prompts at once.  ocr_text is not read again in this iteration.
Describe ==
    /\ pc = "prompt"
    /\ \E typed \in PromptInputs :
          meta' = Identity(prompt_meta(DefaultTitle(src.stem), CurrentYear, ocr_text, src,
                                       typed[1], typed[2], <<>>, <<>>))
    /\ ocr_text' = <<>>
    /\ pc' = "slot"
    /\ UNCHANGED <<diskVars, dry_run, output_format, run_ocr, new_imgs, idx, seen_hashes,
                   works_state, manifest, h, exit, runs, adds, faults, histVars>>
    /\ UNCHANGED callVars

\* slugify(f"{meta.title}-{meta.year}")
MetaSlug(m) == slugify(m.title \o <<"-">> \o Digits(m.year))

\* The slug and the collision loop; meta gets image_path and work_md_path.
Slot ==
    /\ pc = "slot"
    /\ LET slug == ResolveSlug(MetaSlug(meta), output_format, images, work_docs)
       IN  meta' = [title |-> meta.title, year |-> meta.year,
                    source_filename |-> meta.source_filename,
                    image_path |-> ImagePath(slug, output_format),
                    work_md_path |-> DocPath(slug)]
    /\ pc' = "write"
    /\ UNCHANGED <<diskVars, dry_run, output_format, run_ocr, new_imgs, idx, seen_hashes,
                   works_state, manifest, h, ocr_text, exit, runs, adds, faults, histVars>>
    /\ UNCHANGED callVars

\* dry_run: the announcement.  Else shutil.move(tmp_out, img_dst).
MoveImage ==
    /\ pc = "write"
    /\ IF dry_run
       THEN /\ pc' = "record"
            /\ UNCHANGED <<images, tmp_files>>
       ELSE /\ images' = PutFile(images, meta.image_path, tmp_files[tmp_out])
            /\ tmp_files' = DelFile(tmp_files, tmp_out)
            /\ pc' = "writemd"
    /\ UNCHANGED <<source_dir, archive_dir, work_docs, dirs_made, state_json, manifest_json,
                   readme, sitemap, commits, dry_run, output_format, run_ocr, new_imgs,
                   idx, seen_hashes, works_state, manifest, h, ocr_text, meta,
                   exit, runs, adds, faults, histVars>>
    /\ UNCHANGED callVars

\* render_work_md: what identifies the document.
render_work_md(m) ==
    [title |-> m.title, year |-> m.year, image |-> m.image_path,
     source_filename |-> m.source_filename]

\* md_dst.write_text(render_work_md(meta)); the write may fail.
WriteDoc ==
    /\ pc = "writemd"
    /\ \E io_ok \in Outcomes :
        IF io_ok
        THEN /\ work_docs' = PutFile(work_docs, meta.work_md_path, render_work_md(meta))
             /\ pc' = "record"
             /\ UNCHANGED <<dry_run, output_format, run_ocr, new_imgs, idx, seen_hashes,
                            works_state, manifest, h, ocr_text, meta, exit, faults, at_start>>
        ELSE /\ UNCHANGED work_docs
             /\ faults' = faults + 1
             /\ Raise
    /\ UNCHANGED <<source_dir, archive_dir, images, tmp_files, dirs_made, state_json,
                   manifest_json, readme, sitemap, commits, runs, adds,
                   clean, from_clean, ingested, interrupted>>
    /\ UNCHANGED callVars

\* The record main() appends for the current item.
WorkRecord(m, hash) ==
    [title |-> m.title, year |-> m.year, slug |-> m.work_md_path.stem,
     md |-> m.work_md_path, image |-> m.image_path, sha256 |-> hash]

\* The seen set left as it was.
SeenNotAdded(seen, hash) == seen

\* seen_hashes.add(h)
SeenAfter(seen, hash) == seen \cup {hash}

\* The record step with state.json saved after every item.
RecordAndPersist ==
    /\ pc = "record"
    /\ works_state' = Append(works_state, WorkRecord(meta, h))
    /\ seen_hashes' = SeenAfter(seen_hashes, h)
    /\ manifest' = works_state'
    /\ state_json' = IF dry_run THEN state_json
                     ELSE [exists |-> TRUE, seen_hashes |-> SortedSeq(seen_hashes'),
                           works |-> works_state']
    /\ pc' = "archive"
    /\ UNCHANGED <<source_dir, archive_dir, images, work_docs, tmp_files, dirs_made,
                   manifest_json, readme, sitemap, commits,
                   dry_run, output_format, run_ocr, new_imgs, idx,
                   h, ocr_text, meta, exit, runs, adds, faults, histVars>>
    /\ UNCHANGED callVars

\* works_state.append(...), seen_hashes.add(h), manifest["works"] = works_state
Record ==
    /\ pc = "record"
    /\ works_state' = Append(works_state, WorkRecord(meta, h))
    /\ seen_hashes' = SeenAfter(seen_hashes, h)
    /\ manifest' = works_state'
    /\ pc' = "archive"
    /\ UNCHANGED <<diskVars, dry_run, output_format, run_ocr, new_imgs, idx,
                   h, ocr_text, meta, exit, runs, adds, faults, histVars>>
    /\ UNCHANGED callVars

\* A loop that stops one item early.
MoreItemsStopsEarly == idx + 1 < Len(new_imgs)

\* for src in new_imgs: whether the loop has another iteration.
MoreItems == idx < Len(new_imgs)

\* Unless dry_run the source is moved into _ingested (replacing a file of that
\* name there); the temporary asset is gone by now; the loop goes on.
Archive ==
    /\ pc = "archive"
    /\ IF dry_run
       THEN UNCHANGED <<source_dir, archive_dir>>
       ELSE /\ archive_dir' = PutFile(archive_dir, src, source_dir[src])
            /\ source_dir' = DelFile(source_dir, src)
    /\ tmp_files' = DelFile(tmp_files, tmp_out)
    /\ IF MoreItems
       THEN idx' = idx + 1 /\ pc' = "convert"
       ELSE idx' = idx /\ pc' = "readme"
    /\ h' = 0 /\ ocr_text' = <<>> /\ meta' = NoMeta
    /\ UNCHANGED <<images, work_docs, dirs_made, state_json, manifest_json, readme,
                   sitemap, commits, dry_run, output_format, run_ocr, new_imgs,
                   seen_hashes, works_state, manifest, exit, runs, adds, faults, histVars>>
    /\ UNCHANGED callVars

\* works_list = [(w["title"], w["md"]) for w in works_state]
works_list(ws) == [k \in DOMAIN ws |-> <<ws[k].title, PathText(ws[k].md)>>]

\* Unless dry_run, update_readme(repo_dir / "README.md", works_list).
UpdateReadme ==
    /\ pc = "readme"
    /\ readme' = IF dry_run THEN readme
                 ELSE TextFile(update_readme(readme, works_list(works_state)))
    /\ pc' = "persist"
    /\ UNCHANGED <<source_dir, archive_dir, images, work_docs, tmp_files, dirs_made,
                   state_json, manifest_json, sitemap, commits,
                   dry_run, output_format, run_ocr, new_imgs, idx, seen_hashes,
                   works_state, manifest, h, ocr_text, meta, exit, runs, adds, faults, histVars>>
    /\ UNCHANGED callVars

\* state["seen_hashes"] = sorted(seen_hashes); unless dry_run, save_json(state).
PersistState ==
    /\ pc = "persist"
    /\ state_json' = IF dry_run THEN state_json
                     ELSE [exists |-> TRUE, seen_hashes |-> SortedSeq(seen_hashes),
                           works |-> works_state]
    /\ pc' = "persist_manifest"
    /\ UNCHANGED <<source_dir, archive_dir, images, work_docs, tmp_files, dirs_made,
                   manifest_json, readme, sitemap, commits,
                   dry_run, output_format, run_ocr, new_imgs, idx, seen_hashes,
                   works_state, manifest, h, ocr_text, meta, exit, runs, adds, faults, histVars>>
    /\ UNCHANGED callVars

\* Unless dry_run, save_json(manifest_path, manifest).
PersistManifest ==
    /\ pc = "persist_manifest"
    /\ manifest_json' = IF dry_run THEN manifest_json
                        ELSE [exists |-> TRUE, works |-> manifest]
    /\ pc' = "sitemap"
    /\ UNCHANGED <<source_dir, archive_dir, images, work_docs, tmp_files, dirs_made,
                   state_json, readme, sitemap, commits,
                   dry_run, output_format, run_ocr, new_imgs, idx, seen_hashes,
                   works_state, manifest, h, ocr_text, meta, exit, runs, adds, faults, histVars>>
    /\ UNCHANGED callVars

\* sitemap.xml is written with a URL for every works/*.md.
Sitemap ==
    /\ pc = "sitemap"
    /\ sitemap' = [exists |-> TRUE, urls |-> DOMAIN work_docs]
    /\ pc' = "commit"
    /\ UNCHANGED <<source_dir, archive_dir, images, work_docs, tmp_files, dirs_made,
                   state_json, manifest_json, readme, commits,
                   dry_run, output_format, run_ocr, new_imgs, idx, seen_hashes,
                   works_state, manifest, h, ocr_text, meta, exit, runs, adds, faults, histVars>>
    /\ UNCHANGED callVars

\* With auto_commit and not dry_run, git_commit_push; a git command that fails
\* raises.
Commit ==
    /\ pc = "commit"
    /\ \E auto_commit \in BOOLEAN, git_ok \in Outcomes :
        IF auto_commit /\ ~dry_run
        THEN IF git_ok
             THEN /\ commits' = commits + 1
                  /\ pc' = "finish"
                  /\ UNCHANGED <<dry_run, output_format, run_ocr, new_imgs, idx, seen_hashes,
                                 works_state, manifest, h, ocr_text, meta, exit, faults,
                                 at_start>>
             ELSE /\ UNCHANGED commits
                  /\ faults' = faults + 1
                  /\ Raise
        ELSE /\ git_ok
             /\ UNCHANGED commits
             /\ pc' = "finish"
             /\ UNCHANGED <<dry_run, output_format, run_ocr, new_imgs, idx, seen_hashes,
                            works_state, manifest, h, ocr_text, meta, exit, faults, at_start>>
    /\ UNCHANGED <<source_dir, archive_dir, images, work_docs, tmp_files, dirs_made,
                   state_json, manifest_json, readme, sitemap, runs, adds,
                   clean, from_clean, ingested, interrupted>>
    /\ UNCHANGED callVars

\* "Fertig.", the pings, return 0.
Finish ==
    /\ pc = "finish"
    /\ exit' = "0"
    /\ clean' = (clean \/ ~dry_run)
    /\ ingested' = IF dry_run THEN ingested
                   ELSE ingested \cup {works_state[k].sha256 : k \in DOMAIN works_state}
    /\ Forget
    /\ UNCHANGED <<diskVars, runs, adds, faults, from_clean, interrupted>>
    /\ UNCHANGED callVars

\* The process is killed between two steps of a run.
Crash ==
    /\ pc # "idle" /\ faults < MaxFaults
    /\ faults' = faults + 1
    /\ Forget
    /\ exit' = "killed"
    /\ interrupted' = (interrupted \/ ~dry_run)
    /\ UNCHANGED <<diskVars, runs, adds, clean, from_clean, ingested>>
    /\ UNCHANGED callVars

Next ==
    \/ AddFile
    \/ ConfigError
    \/ StartRun
    \/ Convert
    \/ Recognize
    \/ Describe
    \/ Slot
    \/ MoveImage
    \/ WriteDoc
    \/ Record
    \/ Archive
    \/ UpdateReadme
    \/ PersistState
    \/ PersistManifest
    \/ Sitemap
    \/ Commit
    \/ Finish
    \/ Crash

Spec == Init /\ [][Next]_vars

\* ------------------------------------------------------------ update_readme alone
\* README files update_readme may find: text around one pair of markers, with
\* and without blank lines and spaces next to the markers; a text without
\* markers; a text whose end marker occurs twice; no README.
BeforeTexts == {<<>>, <<"x">>, <<"x", "\n">>, <<"x", "\n", "\n">>, <<"x", " ">>}
AfterTexts == {<<>>, <<"y">>, <<"\n", "y">>, <<"\n", "\n", "y", "\n">>, <<" ", "y">>}
ReadmeFiles ==
    {TextFile(b \o <<marker_a, "\n", "old", "\n", marker_b>> \o a) :
        b \in BeforeTexts, a \in AfterTexts}
    \cup {TextFile(<<"x", "\n", "y">>),
          TextFile(<<"x", "\n", marker_a, "\n", marker_b, "\n", "y", marker_b, "z">>),
          Absent}

\* The lists of (title, md) pairs update_readme may be given.
WorkLists ==
    LET foo == <<<<"F", "o", "o">>, PathText(DocPath(<<"f", "o", "o">>))>>
        ab == <<<<"a", " ", "b">>, PathText(DocPath(<<"a", "-", "b">>))>>
    IN  {<<>>, <<foo>>, <<foo, ab>>}

InitReadme ==
    /\ source_dir = PutFile(NoFiles, Notes, 1) /\ archive_dir = NoFiles
    /\ images = NoFiles /\ work_docs = NoFiles /\ tmp_files = NoFiles
    /\ dirs_made = FALSE
    /\ state_json = Absent /\ manifest_json = Absent
    /\ readme \in ReadmeFiles /\ sitemap = Absent /\ commits = 0
    /\ pc = "idle" /\ dry_run = FALSE /\ output_format = "webp" /\ run_ocr = FALSE
    /\ new_imgs = <<>> /\ idx = 0
    /\ seen_hashes = {} /\ works_state = <<>> /\ manifest = <<>>
    /\ h = 0 /\ ocr_text = <<>> /\ meta = NoMeta
    /\ exit = "none" /\ runs = 0 /\ adds = 0 /\ faults = 0
    /\ clean = FALSE /\ from_clean = FALSE /\ ingested = {} /\ interrupted = FALSE
    /\ at_start = NoSnapshot
    /\ readme_was = Absent /\ index_works = <<>> /\ called = FALSE
    /\ typed_transcription = <<>> /\ typed_description = <<>>
    /\ ocr_outcome = NoOutcome

\* update_readme(readme_path, works) is called.
CallUpdateReadme ==
    /\ \E ws \in WorkLists :
          /\ readme' = TextFile(update_readme(readme, ws))
          /\ index_works' = ws
    /\ readme_was' = readme
    /\ called' = TRUE
    /\ UNCHANGED <<source_dir, archive_dir, images, work_docs, tmp_files, dirs_made,
                   state_json, manifest_json, sitemap, commits, memVars,
                   exit, runs, adds, faults, histVars,
                   typed_transcription, typed_description, ocr_outcome>>

NextReadme == CallUpdateReadme

SpecReadme == InitReadme /\ [][NextReadme]_vars

\* ------------------------------------------------------------ prompt_meta alone
\* The lines an operator may type at a multi-line prompt before the line that
\* holds the sentinel: up to MaxLines lines, empty, blank, or text with
\* spaces around it.
PromptLines == {<<>>, <<" ">>, <<"t">>, <<"t", " ">>, <<" ", "t">>}
TypedLines == UNION {[1..n -> PromptLines] : n \in 0..MaxLines}

InitPrompt ==
    /\ source_dir = PutFile(NoFiles, Notes, 1) /\ archive_dir = NoFiles
    /\ images = NoFiles /\ work_docs = NoFiles /\ tmp_files = NoFiles
    /\ dirs_made = FALSE
    /\ state_json = Absent /\ manifest_json = Absent
    /\ readme = Absent /\ sitemap = Absent /\ commits = 0
    /\ pc = "idle" /\ dry_run = FALSE /\ output_format = "webp" /\ run_ocr = FALSE
    /\ new_imgs = <<>> /\ idx = 0
    /\ seen_hashes = {} /\ works_state = <<>> /\ manifest = <<>>
    /\ h = 0 /\ ocr_text \in OcrTexts /\ meta = NoMeta
    /\ exit = "none" /\ runs = 0 /\ adds = 0 /\ faults = 0
    /\ clean = FALSE /\ from_clean = FALSE /\ ingested = {} /\ interrupted = FALSE
    /\ at_start = NoSnapshot
    /\ readme_was = Absent /\ index_works = <<>> /\ called = FALSE
    /\ typed_transcription \in TypedLines /\ typed_description \in TypedLines
    /\ ocr_outcome = NoOutcome

\* prompt_meta(...) is called; the defaults are taken for title and year.
CallPromptMeta ==
    /\ ~called
    /\ meta' = prompt_meta(DefaultTitle(SourceNames[1].stem), CurrentYear, ocr_text,
                           SourceNames[1], <<>>, <<>>,
                           typed_transcription, typed_description)
    /\ called' = TRUE
    /\ UNCHANGED <<diskVars, pc, dry_run, output_format, run_ocr, new_imgs, idx,
                   seen_hashes, works_state, manifest, h, ocr_text,
                   exit, runs, adds, faults, histVars,
                   readme_was, index_works, typed_transcription, typed_description,
                   ocr_outcome>>

NextPrompt == CallPromptMeta

SpecPrompt == InitPrompt /\ [][NextPrompt]_vars

\* ------------------------------------------------------------ run_tesseract_ocr alone
InitOcr ==
    /\ source_dir = PutFile(NoFiles, Notes, 1) /\ archive_dir = NoFiles
    /\ images = NoFiles /\ work_docs = NoFiles /\ tmp_files = NoFiles
    /\ dirs_made = FALSE
    /\ state_json = Absent /\ manifest_json = Absent
    /\ readme = Absent /\ sitemap = Absent /\ commits = 0
    /\ pc = "idle" /\ dry_run = FALSE /\ output_format = "webp" /\ run_ocr = FALSE
    /\ new_imgs = <<>> /\ idx = 0
    /\ seen_hashes = {} /\ works_state = <<>> /\ manifest = <<>>
    /\ h = 0 /\ ocr_text = <<>> /\ meta = NoMeta
    /\ exit = "none" /\ runs = 0 /\ adds = 0 /\ faults = 0
    /\ clean = FALSE /\ from_clean = FALSE /\ ingested = {} /\ interrupted = FALSE
    /\ at_start = NoSnapshot
    /\ readme_was = Absent /\ index_works = <<>> /\ called = FALSE
    /\ typed_transcription = <<>> /\ typed_description = <<>>
    /\ ocr_outcome \in OcrOutcomes

\* ocr_text = run_tesseract_ocr(tmp_out, lang=tess_lang) is called; an exception
\* that leaves it ends the process.
CallOcr ==
    /\ ~called
    /\ LET r == run_tesseract_ocr(ocr_outcome)
       IN  IF r.raised THEN exit' = "1" /\ UNCHANGED ocr_text
           ELSE ocr_text' = r.text /\ UNCHANGED exit
    /\ called' = TRUE
    /\ UNCHANGED <<diskVars, pc, dry_run, output_format, run_ocr, new_imgs, idx,
                   seen_hashes, works_state, manifest, h, meta,
                   runs, adds, faults, histVars,
                   readme_was, index_works, typed_transcription, typed_description,
                   ocr_outcome>>

NextOcr == CallOcr

SpecOcr == InitOcr /\ [][NextOcr]_vars

\* ------------------------------------------------------------ properties
\* The digests of the records of a list.
HashesOf(ws) == {ws[k].sha256 : k \in DOMAIN ws}

\* The source images a run would discover on the disk as it is.
Discoverable == SetOf(find_new_images(source_dir, SetOf(LoadState.seen_hashes)))

\* C1: after a run that was not a dry run has completed and with no file added
\* since, a run that passes the configuration checks discovers nothing: it
\* returns 0 at once and leaves state.json and manifest.json as they were.
DedupIdempotence ==
    [][(clean /\ runs' = runs + 1 /\ exit' # "2")
         => /\ pc' = "idle" /\ exit' = "0"
            /\ new_imgs' = <<>> /\ works_state' = <<>>
            /\ state_json' = state_json /\ manifest_json' = manifest_json]_vars

\* A second run has returned 0 from a disk that held ingested works and to
\* which nothing had been added since a completed run.
DedupSecondRunSeen ==
    /\ from_clean /\ clean /\ runs >= 2 /\ exit = "0" /\ pc = "idle"
    /\ state_json # Absent /\ Len(state_json.works) > 0

\* C2 (as claimed): no two records of the persisted works list carry the same
\* sha256.
UniqueHashes ==
    state_json # Absent =>
        \A i, j \in DOMAIN state_json.works :
            i # j => state_json.works[i].sha256 # state_json.works[j].sha256

\* C3: a file of the source directory whose bytes a completed run (not a dry
\* run) has ingested is discovered by no run, whatever its name: it is not
\* among what a run starting now would discover, nor among what the running
\* main() has discovered and is still to process.
HashStability ==
    /\ \A p \in Discoverable : file_sha256(source_dir, p) \notin ingested
    /\ pc = "convert" =>
          \A k \in idx..Len(new_imgs) : file_sha256(source_dir, new_imgs[k]) \notin ingested

\* A run that was not a dry run has completed since the last file was added and
\* has left an image in the source directory whose bytes were archived
\* under another name.
CopySkipped ==
    /\ clean /\ runs >= 2
    /\ \E p \in DOMAIN source_dir, q \in DOMAIN archive_dir :
          /\ LowerSuffix(p.suffix) \in SUPPORTED_EXTS
          /\ p # q /\ source_dir[p] = archive_dir[q]
          /\ file_sha256(source_dir, p) \in ingested

\* What a dry run is said to leave alone.
Published == <<source_dir, archive_dir, images, work_docs, readme, sitemap, commits,
               state_json, manifest_json>>

\* C4 (as claimed): no step of a dry run (here: one configured with a format
\* web_convert knows) changes the source directory, the archive, the images,
\* the documents, the README, the sitemap, the commits, state.json or
\* manifest.json.
DryRunNonMutation ==
    [][(pc # "idle" /\ dry_run /\ CanConvert(output_format)) => UNCHANGED Published]_vars

\* The documents on disk whose image exists and was converted from bytes c.
PairsOf(c) ==
    {d \in DOMAIN work_docs :
        /\ work_docs[d].image \in DOMAIN images
        /\ images[work_docs[d].image] = c}

\* The records of the persisted works list for bytes c.
RecordsOf(c) ==
    {k \in DOMAIN LoadState.works :
        LoadState.works[k].sha256 = Sha256(c)}

\* No two image files of the source directory and its archive hold the same
\* bytes.
SourcesDiffer ==
    LET held == [d \in {"source", "archive"} |->
                    IF d = "source" THEN source_dir ELSE archive_dir]
        files == {<<d, p>> : d \in {"source", "archive"}, p \in Names \ {Notes}}
        there == {f \in files : f[2] \in DOMAIN held[f[1]]}
    IN  \A f, g \in there : f # g => held[f[1]][f[2]] # held[g[1]][g[2]]

\* C5 (as claimed): once a run that was not a dry run has been killed and a later
\* run has completed, no bytes have more than one image/document pair on disk
\* nor more than one record (here: even when no two source files hold the
\* same bytes).
NoDuplicateAfterResume ==
    (interrupted /\ pc = "idle" /\ exit = "0" /\ SourcesDiffer) =>
        \A c \in Contents : Cardinality(PairsOf(c)) <= 1 /\ Cardinality(RecordsOf(c)) <= 1

\* C6 (as claimed): when the conversion or the writing of the document fails,
\* the run ends with the source directory, the archive, the images, the
\* documents, state.json and manifest.json as it found them.
WriteFailureSafety ==
    [][(pc \in {"convert", "writemd"} /\ exit' = "1") => Durable' = at_start]_vars

\* Both paths of a candidate slug are free.
BothFree(slug) ==
    /\ ImagePath(slug, output_format) \notin DOMAIN images
    /\ DocPath(slug) \notin DOMAIN work_docs

\* C7: the slug main() settles on is the slug s of title and year when both
\* images/<s>.<ext> and works/<s>.md are absent, and else s-n for the least
\* n >= 2 with both paths of s-n absent; the image and the document carry it.
CollisionSuffixing ==
    pc = "write" =>
        LET s == slugify(meta.title \o <<"-">> \o Digits(meta.year))
            r == meta.work_md_path.stem
            most == Cardinality(DOMAIN images) + Cardinality(DOMAIN work_docs) + 2
        IN  /\ meta.image_path = ImagePath(r, output_format)
            /\ meta.work_md_path = DocPath(r)
            /\ BothFree(r)
            /\ IF BothFree(s) THEN r = s
               ELSE \E n \in 2..most :
                       /\ r = Suffixed(s, n)
                       /\ \A m \in 2..(n - 1) : ~BothFree(Suffixed(s, m))

\* The loop has passed the slug and its -2 and settled on -3, past a candidate
\* of which only one path exists.
SuffixThreeReached ==
    /\ pc = "write"
    /\ LET s == slugify(meta.title \o <<"-">> \o Digits(meta.year))
       IN  /\ meta.work_md_path.stem = Suffixed(s, 3)
           /\ \E x \in {s, Suffixed(s, 2)} :
                 (ImagePath(x, output_format) \in DOMAIN images)
                    # (DocPath(x) \in DOMAIN work_docs)

\* No two records of ws share an image path or a document path.
UniquePaths(ws) ==
    \A i, j \in DOMAIN ws : i # j => ws[i].image # ws[j].image /\ ws[i].md # ws[j].md

\* C8 (as claimed): in every state no two records of the record list, in memory
\* or persisted, share an image path or a document path, and the image and the
\* document are never written over an existing file.
PathUniqueness ==
    [][/\ UniquePaths(works_state')
       /\ UniquePaths(LoadState.works)'
       /\ (pc = "write" /\ pc' = "writemd") => meta.image_path \notin DOMAIN images
       /\ (pc = "writemd" /\ pc' = "record") => meta.work_md_path \notin DOMAIN work_docs]_vars

\* C9: the seen hashes in memory include the hashes of the records in memory,
\* and the seen hashes of state.json are exactly the hashes of its records.
SeenSetInvariant ==
    /\ HashesOf(works_state) \subseteq seen_hashes
    /\ state_json # Absent =>
          SetOf(state_json.seen_hashes) = HashesOf(state_json.works)

\* state.json holds a record, and main() has just recorded another item.
SeenSetGrown ==
    /\ pc = "archive"
    /\ state_json # Absent /\ Len(state_json.works) >= 1
    /\ Len(works_state) > Len(state_json.works)

\* txt.split(marker)[0] and what follows the first marker.
BeforeMarker(txt, marker) == SubSeq(txt, 1, Place(txt, marker, 1) - 1)
AfterMarker(txt, marker) == SubSeq(txt, Place(txt, marker, 1) + 1, Len(txt))

\* C10 (as claimed): when the README exists and holds both markers,
\* update_readme leaves what precedes the begin marker and what follows the
\* end marker as they were.
IndexPreservesOutside ==
    [][(/\ readme.exists /\ readme' # readme
        /\ Contains(readme.text, marker_a) /\ Contains(readme.text, marker_b))
          => /\ BeforeMarker(readme'.text, marker_a) = BeforeMarker(readme.text, marker_a)
             /\ AfterMarker(readme'.text, marker_b) = AfterMarker(readme.text, marker_b)]_vars

\* C11 (as claimed): update_readme called again with the list of the call before
\* it, on a README that existed before that call, writes the text that call
\* wrote.
IndexIdempotence ==
    [][(called /\ readme_was.exists /\ called' /\ index_works' = index_works)
          => readme' = readme]_vars

\* The text between the first begin marker and the first end marker of txt.
MarkerSection(txt) ==
    SubSeq(txt, Place(txt, marker_a, 1) + 1, Place(txt, marker_b, 1) - 1)

\* The section that lists the records ws in the order o (a permutation of
\* their indices): the heading, one entry per record, a blank line.
SectionListing(ws, o) ==
    <<"\n">> \o JoinLines(<<<<>>, <<"## Werke">>, <<>>>>
                           \o [k \in DOMAIN o |-> IndexEntry(works_list(ws)[o[k]])]
                           \o <<<<>>, <<>>>>)

\* The README's marker section lists each record of ws once, ordered by
\* lower-cased title.
IndexLists(file, ws) ==
    /\ file.exists
    /\ Contains(file.text, marker_a) /\ Contains(file.text, marker_b)
    /\ \E o \in [DOMAIN ws -> DOMAIN ws] :
          /\ \A i, j \in DOMAIN ws : i # j => o[i] # o[j]
          /\ \A i, j \in DOMAIN ws :
                i < j => ~TextLess(MapLower(ws[o[j]].title), MapLower(ws[o[i]].title))
          /\ MarkerSection(file.text) = SectionListing(ws, o)

\* A run that was not a dry run returns 0 in this step: from the end of main(),
\* or at once because it found no new image.
ReturnsZero ==
    /\ exit' = "0" /\ pc' = "idle"
    /\ \/ pc = "finish" /\ ~dry_run
       \/ pc = "idle" /\ runs' = runs + 1 /\ ~clean /\ clean'

\* C12 (as claimed): when a run that was not a dry run returns 0, having found
\* new images or not, the marker section of the README lists exactly one entry
\* per record of state.json, ordered case-insensitively by title (a repository
\* with no record and no README is let pass).
IndexCompleteness ==
    [][ReturnsZero =>
          \/ IndexLists(readme', LoadState'.works)
          \/ ~readme'.exists /\ LoadState'.works = <<>>]_vars

\* The text of the typed lines as typed, and a text without its whitespace.
AsEntered(typed) == JoinLines(typed)
NonSpace(txt) == SelectSeq(txt, LAMBDA c : ~IsSpace(c))

\* Typed lines that hold text and carry no whitespace the prompt would remove.
TypedClean(typed) ==
    /\ NonSpace(JoinLines(typed)) # <<>>
    /\ \A k \in DOMAIN typed : RStrip(typed[k]) = typed[k]
    /\ Strip(JoinLines(typed)) = JoinLines(typed)

ConfigErrorsChangeNothing ==
    [][/\ (runs' # runs /\ exit' = "2") => UNCHANGED <<diskVars, memVars>>
       /\ (pc = "idle" /\ runs' = runs + 1 /\ exit' # "2" /\ Discoverable = {})
             => (exit' = "0" /\ pc' = "idle")]_vars

\* main() has returned 2 with new images waiting in the source directory and
\* the repository's directories not yet made.
ConfigErrorOnFreshRepository ==
    /\ exit = "2" /\ pc = "idle" /\ runs >= 1
    /\ ~dirs_made /\ Discoverable # {}

\* The tool was absent or failed: the invocation whose output would be
\* returned did not succeed, or left no readable output file.
OcrFailed(o) ==
    \/ o.first \in {"absent", "error"}
    \/ o.first = "nonzero" /\ (o.second # "ok" \/ ~o.txt_file.exists)

\* C15 (as claimed): whatever the external tool does, run_tesseract_ocr raises
\* nothing, and it returns the empty string when the tool is absent or fails.
RecognizerNeverAborts ==
    called =>
        /\ exit # "1"
        /\ OcrFailed(ocr_outcome) => ocr_text = <<>>

\* C16 (as claimed): a run configured with a format web_convert does not know,
\* dry run or not, gets no further than the first item's conversion and
\* recognition: no item is prompted for, written, recorded or archived, and
\* the run does not reach its end.
UnsupportedFormatIsFatal ==
    (pc # "idle" /\ ~CanConvert(output_format)) =>
        (pc \in {"convert", "ocr", "prompt"} /\ idx = 1 /\ works_state = LoadState.works)

\* The works list and the seen hashes a state.json file holds.
WorksIn(file) == IF file.exists THEN file.works ELSE <<>>
SeenIn(file) == IF file.exists THEN SetOf(file.seen_hashes) ELSE {}

\* C17: whenever state.json is written, the works list it held is a prefix
\* of the one it holds now, the records behind that prefix are one per item of
\* the run, in the order of the (filename-sorted) discovery and each with the
\* hash of its item's bytes, and no seen hash is lost.
AppendOnlyRecords ==
    [][state_json' # state_json =>
          LET old == WorksIn(state_json)
              new == WorksIn(state_json')
          IN  /\ pc = "persist" /\ ~dry_run
              /\ Len(new) = Len(old) + Len(new_imgs)
              /\ SubSeq(new, 1, Len(old)) = old
              /\ \A k \in DOMAIN new_imgs :
                    new[Len(old) + k].sha256 = file_sha256(archive_dir, new_imgs[k])
              /\ \E pick \in SUBSET DOMAIN SourceNames :
                    new_imgs = SelectSeq(SourceNames, LAMBDA p : p \in {SourceNames[i] : i \in pick})
              /\ SeenIn(state_json) \subseteq SeenIn(state_json')]_vars

\* A run that was not a dry run has just written state.json, which held a
\* record before, with a record more.
RecordsAppended ==
    /\ pc = "persist_manifest" /\ ~dry_run
    /\ at_start.state_json.exists
    /\ Len(at_start.state_json.works) >= 1
    /\ Len(state_json.works) > Len(at_start.state_json.works)

\* Every item of the run has passed its last stage: its source is archived.
AllItemsDone == \A k \in DOMAIN new_imgs : new_imgs[k] \notin DOMAIN source_dir

\* C18: state.json and manifest.json are written by a run that is not a dry run
\* only, each at most once (the file is still as the run found it), after
\* every item has passed its last stage and the README has been regenerated
\* from the complete list; sitemap.xml is written and the commit made only
\* after both hold the run's list; a run that reaches its end has written both.
PersistOnce ==
    [][/\ state_json' # state_json =>
             /\ ~dry_run /\ pc = "persist"
             /\ state_json = at_start.state_json
             /\ manifest_json = at_start.manifest_json
             /\ AllItemsDone /\ idx = Len(new_imgs)
             /\ IndexLists(readme, works_state)
             /\ sitemap' = sitemap /\ commits' = commits
       /\ manifest_json' # manifest_json =>
             /\ ~dry_run /\ pc = "persist_manifest"
             /\ manifest_json = at_start.manifest_json
             /\ WorksIn(state_json) = works_state
             /\ AllItemsDone
             /\ sitemap' = sitemap /\ commits' = commits
       /\ ((sitemap' # sitemap \/ commits' # commits \/ pc = "finish") /\ ~dry_run) =>
             /\ WorksIn(state_json) = works_state /\ WorksIn(manifest_json) = manifest
             /\ state_json # at_start.state_json /\ manifest_json # at_start.manifest_json
             /\ UNCHANGED <<state_json, manifest_json>>]_vars

\* A run that was not a dry run has ingested two items and written state.json
\* and manifest.json, and is about to write sitemap.xml.
BatchPersisted ==
    /\ pc = "sitemap" /\ ~dry_run /\ Len(new_imgs) >= 2
    /\ WorksIn(state_json) = works_state /\ WorksIn(manifest_json) = manifest
    /\ state_json # at_start.state_json

\* The order of the stages of an item (conversion, recognition, metadata
\* capture, slug resolution, write of image and document, record, archival)
\* and of what follows the last item.
StageSteps ==
    {<<"convert", "ocr">>, <<"ocr", "prompt">>, <<"prompt", "slot">>, <<"slot", "write">>,
     <<"write", "writemd">>, <<"writemd", "record">>, <<"record", "archive">>,
     <<"archive", "convert">>, <<"archive", "readme">>}

\* C19: while items are processed main() moves from each stage to the next
\* only (or ends), it moves to the next item only from the archival of the
\* one before; in a dry run nothing is converted, recognized, written or
\* archived while metadata capture and slug resolution run; with OCR
\* disabled in a run that is not a dry run only recognition is skipped.
StageOrdering ==
    [][(pc \in {"convert", "ocr", "prompt", "slot", "write", "writemd", "record", "archive"}
        /\ pc' # "idle") =>
          /\ \/ <<pc, pc'>> \in StageSteps
             \/ dry_run /\ pc = "write" /\ pc' = "record"
          /\ idx' # idx => (pc = "archive" /\ pc' = "convert" /\ idx' = idx + 1)
          /\ pc' = "convert" => idx' = idx + 1
          /\ pc = "prompt" => (meta = NoMeta /\ meta'.title # <<>>)
          /\ pc = "slot" => meta'.work_md_path.stem # <<>>
          /\ dry_run =>
                /\ UNCHANGED <<images, work_docs, source_dir, archive_dir>>
                /\ DOMAIN tmp_files' \subseteq DOMAIN tmp_files
                /\ ocr_text' = <<>>
          /\ ~dry_run =>
                /\ pc = "convert" => tmp_out \in DOMAIN tmp_files'
                /\ (pc = "ocr" /\ ~run_ocr) => ocr_text' = <<>>
                /\ pc = "write" => (pc' = "writemd" /\ meta.image_path \in DOMAIN images')
                /\ pc = "writemd" => meta.work_md_path \in DOMAIN work_docs'
                /\ pc = "archive" =>
                      (src \in DOMAIN archive_dir' /\ src \notin DOMAIN source_dir')]_vars

\* A dry run is at the archival stage of its second item, metadata and slug in
\* hand, with nothing converted, written or archived.
DryRunSecondItem ==
    /\ pc = "archive" /\ dry_run /\ idx = 2
    /\ meta.work_md_path.stem # <<>>
    /\ images = NoFiles /\ archive_dir = NoFiles /\ tmp_files = NoFiles

\* C20 (as claimed): a file of the archive stays there with its bytes,
\* whatever is archived later (here: with no run failed or killed).
ArchivePreserved ==
    [][faults = 0 =>
          \A p \in DOMAIN archive_dir :
              p \in DOMAIN archive_dir' /\ archive_dir'[p] = archive_dir[p]]_vars

====
